---- MODULE Spec2Model ----
(***************************************************************************)
(* Model of src/index.js: an Express API over three Sequelize tables       *)
(* (user, playlist, song) with bcrypt credentials, JWT bearer tokens and   *)
(* the auth middleware that guards every /playlists route.                 *)
(*                                                                         *)
(* Time is counted in hours.  A string of the Authorization header is a    *)
(* sequence of symbols: the space, the word Bearer, and T, which stands    *)
(* for the text of the token the request carries.                          *)
(***************************************************************************)
EXTENDS Integers, Sequences, FiniteSets, TLC

VARIABLES env, phase, now, users, playlists, songs, ids, issued, reqs, last

vars == <<env, phase, now, users, playlists, songs, ids, issued, reqs, last>>

store == <<users, playlists, songs, ids>>

\* ------------------------------------------------------------------ bounds
MaxTime == 3
MaxUsers == 2
MaxPlaylists == 2
MaxRows == 3
MaxTokens == 2
MaxHeaderLen == 5

\* ------------------------------------------------------- program constants
\* expiresIn: '2h'
ExpiresIn == 2
\* bcrypt.hashSync(password, 10)
SaltRounds == 10

\* ------------------------------------------------------------ value spaces
Undefined == "undefined"
EnvVals == {Undefined, "", "s3cret"}
Emails == {"a@x", "b@x"}
Passwords == {"pw1", "pw2"}
Salts == {"s1", "s2"}
Names == {"mix"}
Titles == {"song"}
UserIds == 1..(MaxUsers + 1)
PlaylistIds == 1..MaxPlaylists

SP == " "
Absent == <<"<absent>">>
RECURSIVE SeqsUpTo(_, _)
SeqsUpTo(S, n) ==
  IF n = 0 THEN {<<>>}
  ELSE LET shorter == SeqsUpTo(S, n - 1)
       IN shorter \cup {Append(s, c) : s \in {t \in shorter : Len(t) = n - 1}, c \in S}
\* req.headers.authorization: absent, or a header value (which the HTTP parser
\* hands over without leading or trailing spaces)
Headers ==
  {Absent} \cup {h \in SeqsUpTo({SP, "Bearer", "T"}, MaxHeaderLen) :
                   h = <<>> \/ (h[1] # SP /\ h[Len(h)] # SP)}
\* the two headers of a well-behaved client: none, and Bearer <token>
ClientHeaders == {Absent, <<"Bearer", SP, "T">>}

Routes == {"GET /playlists", "GET /playlists/:id", "POST /playlists",
           "DELETE /playlists/:id", "POST /playlists/:id/songs"}

\* ------------------------------------------------------------ environment
\* const jwtSecret = process.env.JWT_SECRET
jwtSecret == env.JWT_SECRET

\* the check without the comparison with the empty string
UnsetNullOnly(v) == v = Undefined

\* if (v == null || v === '')
Unset(v) == v = Undefined \/ v = ""

\* ------------------------------------------------------------------ bcrypt
\* The digest is a function of the salt and the plaintext and of nothing else.
Digest(salt, plaintext) == <<salt, plaintext>>

\* bcrypt.hashSync(data, rounds), with the salt it draws
hashSync(data, rounds, salt) ==
  [rounds |-> rounds, salt |-> salt, digest |-> Digest(salt, data)]

\* bcrypt.compareSync(data, hash): rehash with the salt embedded in the hash
compareSync(data, hash) == Digest(hash.salt, data) = hash.digest

\* bcrypt throws 'data and ... arguments required' on a missing argument
BcryptThrows(data) == data = Undefined

\* --------------------------------------------------------------------- jwt
\* HMAC of the payload under a key
Sign(payload, key) == [key |-> key, payload |-> payload]

NoPayload == [userId |-> 0, iat |-> 0, exp |-> 0]
Garbage == [kind |-> "garbage", payload |-> NoPayload, sig |-> Sign(NoPayload, "")]

\* a token that never expires within the run (no expiresIn)
toJWTNoExpiry(data, t) ==
  LET payload == [userId |-> data.userId, iat |-> t, exp |-> t + MaxTime + ExpiresIn]
  IN [kind |-> "jwt", payload |-> payload, sig |-> Sign(payload, jwtSecret)]

\* a token signed without the claims
toJWTNoClaims(data, t) ==
  LET payload == [userId |-> 0, iat |-> t, exp |-> t + ExpiresIn]
  IN [kind |-> "jwt", payload |-> payload, sig |-> Sign(payload, jwtSecret)]

\* jwt.sign(data, jwtSecret, { expiresIn: '2h' }) at time t
toJWT(data, t) ==
  LET payload == [userId |-> data.userId, iat |-> t, exp |-> t + ExpiresIn]
  IN [kind |-> "jwt", payload |-> payload, sig |-> Sign(payload, jwtSecret)]

\* jwt.decode in place of jwt.verify: the signature is not checked
toDataUnverified(token, t) ==
  IF token.kind # "jwt"
  THEN [ok |-> FALSE, name |-> "JsonWebTokenError", message |-> "jwt malformed",
        payload |-> NoPayload]
  ELSE IF t >= token.payload.exp
  THEN [ok |-> FALSE, name |-> "TokenExpiredError", message |-> "jwt expired",
        payload |-> NoPayload]
  ELSE [ok |-> TRUE, name |-> "", message |-> "", payload |-> token.payload]

\* verification that consults the tokens handed out: only the token issued
\* last to its user passes, as if each login revoked the earlier ones
toDataLatestOnly(token, t) ==
  IF token.kind # "jwt"
  THEN [ok |-> FALSE, name |-> "JsonWebTokenError", message |-> "jwt malformed",
        payload |-> NoPayload]
  ELSE IF token.sig # Sign(token.payload, jwtSecret)
  THEN [ok |-> FALSE, name |-> "JsonWebTokenError", message |-> "invalid signature",
        payload |-> NoPayload]
  ELSE IF t >= token.payload.exp
  THEN [ok |-> FALSE, name |-> "TokenExpiredError", message |-> "jwt expired",
        payload |-> NoPayload]
  ELSE IF \E i \in issued : /\ i.token.payload.userId = token.payload.userId
                            /\ i.token.payload.iat > token.payload.iat
  THEN [ok |-> FALSE, name |-> "JsonWebTokenError", message |-> "jwt revoked",
        payload |-> NoPayload]
  ELSE [ok |-> TRUE, name |-> "", message |-> "", payload |-> token.payload]

\* jwt.verify(token, jwtSecret) at time t: the payload, or the error thrown
toData(token, t) ==
  IF token.kind # "jwt"
  THEN [ok |-> FALSE, name |-> "JsonWebTokenError", message |-> "jwt malformed",
        payload |-> NoPayload]
  ELSE IF token.sig # Sign(token.payload, jwtSecret)
  THEN [ok |-> FALSE, name |-> "JsonWebTokenError", message |-> "invalid signature",
        payload |-> NoPayload]
  ELSE IF t >= token.payload.exp
  THEN [ok |-> FALSE, name |-> "TokenExpiredError", message |-> "jwt expired",
        payload |-> NoPayload]
  ELSE [ok |-> TRUE, name |-> "", message |-> "", payload |-> token.payload]

\* ------------------------------------------------------ Authorization header
\* String.prototype.split(' ')
RECURSIVE split(_)
split(s) ==
  IF \A i \in 1..Len(s) : s[i] # SP THEN <<s>>
  ELSE LET i == CHOOSE k \in 1..Len(s) : s[k] = SP /\ \A j \in 1..(k - 1) : s[j] # SP
       IN <<SubSeq(s, 1, i - 1)>> \o split(SubSeq(s, i + 1, Len(s)))

\* const auth = req.headers.authorization && req.headers.authorization.split(' ')
\* (an absent or empty header is falsy and yields no parts)
authParts(h) == IF h = Absent \/ h = <<>> THEN <<>> ELSE split(h)

\* the scheme is not compared
BearerOkAnyScheme(h) ==
  LET a == authParts(h)
  IN /\ Len(a) >= 2
     /\ a[2] # <<>>

\* if (auth && auth[0] === 'Bearer' && auth[1])
BearerOk(h) ==
  LET a == authParts(h)
  IN /\ Len(a) >= 2
     /\ a[1] = <<"Bearer">>
     /\ a[2] # <<>>

\* auth[1]: the token text handed to toData; tok is the token T stands for
bearerToken(h, tok) == IF authParts(h)[2] = <<"T">> THEN tok ELSE Garbage

\* ------------------------------------------------------------------- store
NoHash == hashSync("", 0, "")
NoUser == [id |-> 0, email |-> "", password |-> NoHash]

\* User.findByPk(id): the row with that primary key, if any
findByPk(id) == {u \in users : u.id = id}

\* User.findOne({ where: { email } }): the rows it may return (one, in no
\* stated order, when several match)
findOneByEmail(email) == {u \in users : u.email = email}

\* where clauses that leave the owner out
whereAnyUser(userId) == playlists
whereIdAlone(userId, id) == {p \in playlists : p.id = id}

\* Playlist.findAll({ where: { userId } })
whereUser(userId) == {p \in playlists : p.userId = userId}
\* Playlist.findOne / destroy({ where: { userId, id } })
whereUserAndId(userId, id) == {p \in playlists : p.userId = userId /\ p.id = id}

\* attributes: [ 'id', 'name' ]
playlistAttrs(p) == [id |-> p.id, name |-> p.name]
\* attributes: [ 'id', 'title', 'album', 'artist' ]
songAttrs(g) == [id |-> g.id, title |-> g.title, album |-> g.album, artist |-> g.artist]
\* include: [{ model: Song }]
songsOf(p) == {g \in songs : g.playlistId = p.id}
\* the row as stored, without an attributes list
userAttrsWholeRow(u) == u

\* attributes: [ 'id', 'email' ]
userAttrs(u) == [id |-> u.id, email |-> u.email]

\* ---------------------------------------------------------------- requests
NoBody == [name |-> Undefined]
Idle == [pc |-> "idle", route |-> "", authorization |-> Absent, tok |-> Garbage,
         id |-> 0, body |-> NoBody, data |-> NoPayload, user |-> NoUser,
         playlist |-> 0]

NoLast == [route |-> "", authorization |-> Absent, tok |-> Garbage, id |-> 0,
           body |-> NoBody, user |-> 0, outcome |-> "none", next |-> "",
           status |-> 0, res |-> [none |-> TRUE]]

\* the exchange of a protected request rq that ended in a response
Responded(rq, status, body) ==
  [route |-> rq.route, authorization |-> rq.authorization, tok |-> rq.tok,
   id |-> rq.id, body |-> rq.body, user |-> rq.user.id, outcome |-> "response",
   next |-> "", status |-> status, res |-> body]

\* next(err) answered by a handler that masks it as a 400 {error}
NextErrorAnswered400(rq, err) ==
  [route |-> rq.route, authorization |-> rq.authorization, tok |-> rq.tok,
   id |-> rq.id, body |-> rq.body, user |-> rq.user.id, outcome |-> "response",
   next |-> "", status |-> 400, res |-> [error |-> err]]

\* next(err): the chain is halted and err goes to the framework's error handling
NextError(rq, err) ==
  [route |-> rq.route, authorization |-> rq.authorization, tok |-> rq.tok,
   id |-> rq.id, body |-> rq.body, user |-> rq.user.id, outcome |-> "next",
   next |-> err, status |-> 500, res |-> [html |-> err]]

\* an async handler whose promise rejected: it sent no response
Rejected(rq, err) ==
  [route |-> rq.route, authorization |-> rq.authorization, tok |-> rq.tok,
   id |-> rq.id, body |-> rq.body, user |-> rq.user.id, outcome |-> "rejected",
   next |-> err, status |-> 0, res |-> [none |-> TRUE]]

\* the exchange of an open route (no auth middleware)
Open(route, body) == [Idle EXCEPT !.route = route, !.body = body]

\* tokens a client can put in a header: those the service handed out, copies
\* of them with an altered payload, tokens signed with a key of the client's
\* own, and text that is no token
Altered(t) ==
  {[t EXCEPT !.payload.exp = MaxTime + 1]}
    \cup {[t EXCEPT !.payload.userId = u] : u \in UserIds \ {t.payload.userId}}
SelfSigned ==
  {[kind |-> "jwt", payload |-> p, sig |-> Sign(p, "client key")] :
     p \in {[userId |-> u, iat |-> now, exp |-> now + ExpiresIn] : u \in {1}}}
Presentable ==
  {Garbage} \cup {i.token : i \in issued}
    \cup UNION {Altered(i.token) : i \in issued} \cup SelfSigned

\* -------------------------------------------------------------------- Init
\* The tables and the tokens in clients' hands outlive the process.  Before
\* this run: nothing ("fresh"); or account 1 was registered and logged in
\* ("kept"); or it was, and its row has been removed since ("gone").
Account1 == [id |-> 1, email |-> "a@x", password |-> hashSync("pw1", SaltRounds, "s1")]

InitWith(slots, earlier) ==
  /\ env \in [DB_PASS : EnvVals, JWT_SECRET : EnvVals]
  /\ phase = "start"
  /\ now = 0
  /\ playlists = {}
  /\ songs = {}
  /\ \E e \in earlier :
       /\ e # "fresh" => ~Unset(env.DB_PASS) /\ ~Unset(env.JWT_SECRET)
       /\ users = IF e = "kept" THEN {Account1} ELSE {}
       /\ ids = [user |-> IF e = "fresh" THEN 1 ELSE 2, playlist |-> 1, song |-> 1]
       /\ issued = IF e = "fresh" THEN {}
                   ELSE {[claims |-> [userId |-> 1], token |-> toJWT([userId |-> 1], 0)]}
  /\ reqs = [s \in slots |-> Idle]
  /\ last = NoLast

\* one request at a time, over tables no earlier run has touched
Init == InitWith({"r1"}, {"fresh"})

\* ------------------------------------------------------------ module top level
\* lines 7-25 and main(): exit(1) unless both secrets are set, else serve
Boot ==
  /\ phase = "start"
  /\ phase' = IF Unset(env.DB_PASS) \/ Unset(env.JWT_SECRET) THEN "exit 1" ELSE "serving"
  /\ UNCHANGED <<env, now, store, issued, reqs, last>>

\* the clock
Tick ==
  /\ phase = "serving"
  /\ now < MaxTime
  /\ now' = now + 1
  /\ UNCHANGED <<env, phase, store, issued, reqs, last>>

\* ------------------------------------------------------------- POST /users
\* the handler without the comparison of password and password_confirmation
PostUsersUnconfirmed(email, password, confirmation, salt) ==
  LET rq == Open("POST /users", [email |-> email, password |-> password,
                                  password_confirmation |-> confirmation])
  IN
  /\ phase = "serving"
  /\ IF BcryptThrows(password)
     THEN /\ last' = Rejected(rq, "data and salt arguments required")
          /\ UNCHANGED store
     ELSE LET user == [id |-> ids.user, email |-> email,
                       password |-> hashSync(password, SaltRounds, salt)]
          IN /\ Cardinality(users) < MaxUsers
             /\ users' = users \cup {user}
             /\ ids' = [ids EXCEPT !.user = @ + 1]
             /\ last' = Responded(rq, 201, userAttrs(user))
             /\ UNCHANGED <<playlists, songs>>
  /\ UNCHANGED <<env, phase, now, issued, reqs>>

\* app.post('/users', ...)
PostUsers(email, password, confirmation, salt) ==
  LET rq == Open("POST /users", [email |-> email, password |-> password,
                                  password_confirmation |-> confirmation])
  IN
  /\ phase = "serving"
  /\ IF password # confirmation
     THEN /\ last' = Responded(rq, 200, [error |-> "Passwords need to match!"])
          /\ UNCHANGED store
     ELSE IF BcryptThrows(password)
     THEN /\ last' = Rejected(rq, "data and salt arguments required")
          /\ UNCHANGED store
     ELSE LET user == [id |-> ids.user, email |-> email,
                       password |-> hashSync(password, SaltRounds, salt)]
          IN /\ Cardinality(users) < MaxUsers
             /\ users' = users \cup {user}
             /\ ids' = [ids EXCEPT !.user = @ + 1]
             /\ last' = Responded(rq, 201, userAttrs(user))
             /\ UNCHANGED <<playlists, songs>>
  /\ UNCHANGED <<env, phase, now, issued, reqs>>

\* ------------------------------------------------------------ POST /tokens
PostTokens(email, password) ==
  LET rq == Open("POST /tokens", [email |-> email, password |-> password])
      Unauthorized == /\ last' = Responded(rq, 401, [error |-> "Unauthorized"])
                      /\ UNCHANGED issued
  IN
  /\ phase = "serving"
  /\ IF findOneByEmail(email) = {}
     THEN Unauthorized
     ELSE \E user \in findOneByEmail(email) :
            IF BcryptThrows(password)
            THEN /\ last' = Rejected(rq, "data and hash arguments required")
                 /\ UNCHANGED issued
            ELSE IF ~compareSync(password, user.password)
            THEN Unauthorized
            ELSE LET claims == [userId |-> user.id]
                     token == toJWT(claims, now)
                     grant == [claims |-> claims, token |-> token]
                 IN /\ grant \in issued \/ Cardinality(issued) < MaxTokens
                    /\ issued' = issued \cup {grant}
                    /\ last' = Responded(rq, 200, [token |-> token])
  /\ UNCHANGED <<env, phase, now, store, reqs>>

\* ---------------------------------------------------------- auth middleware
\* requests a client can send to a protected route
HasId(route) == route \in {"GET /playlists/:id", "DELETE /playlists/:id",
                           "POST /playlists/:id/songs"}
ParamIds(route) == IF HasId(route) THEN PlaylistIds ELSE {0}
Bodies(route) ==
  IF route = "POST /playlists" THEN {[name |-> n] : n \in Names}
  ELSE IF route = "POST /playlists/:id/songs"
  THEN {[title |-> t, artist |-> "artist", album |-> "album"] : t \in Titles}
  ELSE {NoBody}
\* the tokens a header h can carry: T stands for nothing in a header without T
TokensIn(h, toks) == IF \E i \in 1..Len(h) : h[i] = "T" THEN toks ELSE {Garbage}
Request(route, h, tok, id, body) ==
  [Idle EXCEPT !.route = route, !.authorization = h, !.tok = tok, !.id = id,
               !.body = body]

\* the message without the error's name
errorTextMessageOnly(error) == "Error: " \o error.message

\* `Error ${error.name}: ${error.message}`
errorText(error) == "Error " \o error.name \o ": " \o error.message

\* auth(req, res, next), up to the response or to the pending User.findByPk
auth(s, rq) ==
  /\ phase = "serving"
  /\ reqs[s].pc = "idle"
  /\ IF BearerOk(rq.authorization)
     THEN LET result == toData(bearerToken(rq.authorization, rq.tok), now)
          IN IF result.ok
             THEN /\ reqs' = [reqs EXCEPT ![s] = [rq EXCEPT !.pc = "lookup",
                                                           !.data = result.payload]]
                  /\ UNCHANGED last
             ELSE /\ last' = Responded(rq, 400, [error |-> errorText(result)])
                  /\ UNCHANGED reqs
     ELSE /\ last' = Responded(rq, 401, [error |-> "Unauthorized"])
          /\ UNCHANGED reqs
  /\ UNCHANGED <<env, phase, now, store, issued>>

\* the callback reading the verified data of whichever lookup is pending, as
\* if `data` were one variable shared by the requests
authThenSharedData(s) ==
  /\ reqs[s].pc = "lookup"
  /\ \E t \in DOMAIN reqs :
       /\ reqs[t].pc = "lookup"
       /\ IF findByPk(reqs[t].data.userId) = {}
          THEN /\ last' = NextError(reqs[s], "User does not exist")
               /\ reqs' = [reqs EXCEPT ![s] = Idle]
          ELSE \E user \in findByPk(reqs[t].data.userId) :
                 /\ reqs' = [reqs EXCEPT ![s].user = user, ![s].pc = "handler"]
                 /\ UNCHANGED last
  /\ UNCHANGED <<env, phase, now, store, issued>>

\* the same without the `return`: after next('User does not exist') the
\* callback goes on to req.user = user; next()
authThenNoReturn(s) ==
  /\ reqs[s].pc = "lookup"
  /\ IF findByPk(reqs[s].data.userId) = {}
     THEN /\ last' = NextError(reqs[s], "User does not exist")
          /\ reqs' = [reqs EXCEPT ![s].pc = "handler"]
     ELSE \E user \in findByPk(reqs[s].data.userId) :
            /\ reqs' = [reqs EXCEPT ![s].user = user, ![s].pc = "handler"]
            /\ UNCHANGED last
  /\ UNCHANGED <<env, phase, now, store, issued>>

\* .then(user => { if (user == null) return next('User does not exist');
\*                 req.user = user; next() })
authThen(s) ==
  /\ reqs[s].pc = "lookup"
  /\ IF findByPk(reqs[s].data.userId) = {}
     THEN /\ last' = NextError(reqs[s], "User does not exist")
          /\ reqs' = [reqs EXCEPT ![s] = Idle]
     ELSE \E user \in findByPk(reqs[s].data.userId) :
            /\ reqs' = [reqs EXCEPT ![s].user = user, ![s].pc = "handler"]
            /\ UNCHANGED last
  /\ UNCHANGED <<env, phase, now, store, issued>>

\* a catch that masks the store's error as a 400 instead of forwarding it
authCatchMasked(s) ==
  /\ reqs[s].pc = "lookup"
  /\ last' = Responded(reqs[s], 400, [error |-> "Error SequelizeConnectionError"])
  /\ reqs' = [reqs EXCEPT ![s] = Idle]
  /\ UNCHANGED <<env, phase, now, store, issued>>

\* .catch(next): the lookup failed in the store
authCatch(s) ==
  /\ reqs[s].pc = "lookup"
  /\ last' = NextError(reqs[s], "SequelizeConnectionError")
  /\ reqs' = [reqs EXCEPT ![s] = Idle]
  /\ UNCHANGED <<env, phase, now, store, issued>>

\* ------------------------------------------------------- /playlists handlers
Running(s, route) == reqs[s].pc = "handler" /\ reqs[s].route = route

\* res.status(status).json(body) ends the request in slot s
respond(s, status, body) ==
  /\ last' = Responded(reqs[s], status, body)
  /\ reqs' = [reqs EXCEPT ![s] = Idle]

\* app.get('/playlists', auth, ...)
GetPlaylists(s) ==
  /\ Running(s, "GET /playlists")
  /\ respond(s, 200, [playlists |-> {playlistAttrs(p) : p \in whereUser(reqs[s].user.id)}])
  /\ UNCHANGED <<env, phase, now, store, issued>>

\* app.get('/playlists/:id', auth, ...)
GetPlaylist(s) ==
  /\ Running(s, "GET /playlists/:id")
  /\ LET found == whereUserAndId(reqs[s].user.id, reqs[s].id)
     IN IF found = {}
        THEN respond(s, 404, [error |-> "Not found"])
        ELSE \E p \in found :
               respond(s, 200, [id |-> p.id, name |-> p.name,
                                songs |-> {songAttrs(g) : g \in songsOf(p)}])
  /\ UNCHANGED <<env, phase, now, store, issued>>

\* the handler creating the playlist from the whole body, so that a userId
\* in the body decides the owner
PostPlaylistsOwnerFromBody(s) ==
  /\ Running(s, "POST /playlists")
  /\ ids.playlist <= MaxPlaylists
  /\ ids.playlist + ids.song - 2 < MaxRows
  /\ LET named == IF "userId" \in DOMAIN reqs[s].body
                  THEN reqs[s].body.userId ELSE reqs[s].user.id
         playlist == [id |-> ids.playlist, name |-> reqs[s].body.name,
                      userId |-> named]
     IN /\ playlists' = playlists \cup {playlist}
        /\ ids' = [ids EXCEPT !.playlist = @ + 1]
        /\ respond(s, 201, playlist)
  /\ UNCHANGED <<env, phase, now, users, songs, issued>>

\* app.post('/playlists', auth, ...)
PostPlaylists(s) ==
  /\ Running(s, "POST /playlists")
  /\ ids.playlist <= MaxPlaylists
  /\ ids.playlist + ids.song - 2 < MaxRows
  /\ LET playlist == [id |-> ids.playlist, name |-> reqs[s].body.name,
                      userId |-> reqs[s].user.id]
     IN /\ playlists' = playlists \cup {playlist}
        /\ ids' = [ids EXCEPT !.playlist = @ + 1]
        /\ respond(s, 201, playlist)
  /\ UNCHANGED <<env, phase, now, users, songs, issued>>

\* app.delete('/playlists/:id', auth, ...); the songs' foreign key is
\* ON DELETE SET NULL (Playlist.hasMany(Song))
DeletePlaylist(s) ==
  /\ Running(s, "DELETE /playlists/:id")
  /\ LET doomed == whereUserAndId(reqs[s].user.id, reqs[s].id)
         gone == {p.id : p \in doomed}
     IN /\ playlists' = playlists \ doomed
        /\ songs' = {IF g.playlistId \in gone THEN [g EXCEPT !.playlistId = 0] ELSE g :
                       g \in songs}
        /\ IF Cardinality(doomed) = 0
           THEN respond(s, 404, [error |-> "Not found"])
           ELSE respond(s, 200, [count |-> Cardinality(doomed)])
  /\ UNCHANGED <<env, phase, now, users, ids, issued>>

\* app.post('/playlists/:id/songs', auth, ...), up to the pending Song.create
PostSongsFind(s) ==
  /\ Running(s, "POST /playlists/:id/songs")
  /\ LET found == whereUserAndId(reqs[s].user.id, reqs[s].id)
     IN IF found = {}
        THEN respond(s, 422, [error |-> "Not found"])
        ELSE \E p \in found :
               /\ reqs' = [reqs EXCEPT ![s].playlist = p.id, ![s].pc = "create"]
               /\ UNCHANGED last
  /\ UNCHANGED <<env, phase, now, store, issued>>

\* ... from Song.create on; the insert fails on the foreign key when the
\* playlist has been deleted meanwhile
PostSongsCreate(s) ==
  /\ reqs[s].pc = "create"
  /\ IF reqs[s].playlist \in {p.id : p \in playlists}
     THEN LET song == [id |-> ids.song, title |-> reqs[s].body.title,
                       artist |-> reqs[s].body.artist, album |-> reqs[s].body.album,
                       playlistId |-> reqs[s].playlist]
          IN /\ ids.playlist + ids.song - 2 < MaxRows
             /\ songs' = songs \cup {song}
             /\ ids' = [ids EXCEPT !.song = @ + 1]
             /\ respond(s, 201, song)
     ELSE /\ last' = Rejected(reqs[s], "SequelizeForeignKeyConstraintError")
          /\ reqs' = [reqs EXCEPT ![s] = Idle]
          /\ UNCHANGED <<songs, ids>>
  /\ UNCHANGED <<env, phase, now, users, playlists, issued>>

\* ----------------------------------------------------------------- turns
\* Node runs one callback at a time: `last` is the exchange the current turn of
\* the event loop completed, and it is gone when the next callback runs.
Quiet == last = NoLast

Sent ==
  /\ ~Quiet
  /\ last' = NoLast
  /\ UNCHANGED <<env, phase, now, store, issued, reqs>>

\* -------------------------------------------------------------------- Next
\* the whole service at one instant, one request at a time, driven by clients
\* that send no header or Bearer <a token they were given>
Next ==
  \/ Sent
  \/ Quiet /\ Boot
  \/ Quiet /\ \E email \in Emails : PostUsers(email, "pw1", "pw1", "s1")
  \/ Quiet /\ \E email \in Emails : PostTokens(email, "pw1")
  \/ Quiet /\ \E s \in DOMAIN reqs, route \in Routes, h \in ClientHeaders :
                \E tok \in TokensIn(h, {i.token : i \in issued}),
                   id \in ParamIds(route), body \in Bodies(route) :
                  auth(s, Request(route, h, tok, id, body))
  \/ Quiet /\ \E s \in DOMAIN reqs : authThen(s)
  \/ Quiet /\ \E s \in DOMAIN reqs : authCatch(s)
  \/ Quiet /\ \E s \in DOMAIN reqs : GetPlaylists(s)
  \/ Quiet /\ \E s \in DOMAIN reqs : GetPlaylist(s)
  \/ Quiet /\ \E s \in DOMAIN reqs : PostPlaylists(s)
  \/ Quiet /\ \E s \in DOMAIN reqs : DeletePlaylist(s)
  \/ Quiet /\ \E s \in DOMAIN reqs : PostSongsFind(s)
  \/ Quiet /\ \E s \in DOMAIN reqs : PostSongsCreate(s)

Spec == Init /\ [][Next]_vars

\* registration and login alone, driven by every body over Emails, Passwords
\* and a missing password
NextAccounts ==
  \/ Sent
  \/ Quiet /\ Boot
  \/ Quiet /\ \E email \in Emails, password \in Passwords \cup {Undefined},
                 confirmation \in Passwords \cup {Undefined}, salt \in Salts :
                PostUsers(email, password, confirmation, salt)
  \/ Quiet /\ \E email \in Emails, password \in Passwords \cup {Undefined} :
                PostTokens(email, password)

SpecAccounts == Init /\ [][NextAccounts]_vars

\* the auth middleware in front of one route as the clock runs, driven by
\* every header of up to MaxHeaderLen symbols around a token the service
\* issued, and by Bearer <any token a client can make>, over the tables of
\* an earlier run
InitAuth == InitWith({"r1"}, {"kept", "gone"})

NextAuth ==
  \/ Sent
  \/ Quiet /\ Boot
  \/ Quiet /\ Tick
  \/ Quiet /\ PostUsers("b@x", "pw1", "pw1", "s1")
  \/ Quiet /\ \E email \in Emails : PostTokens(email, "pw1")
  \/ Quiet /\ \E s \in DOMAIN reqs, h \in Headers :
                \E tok \in TokensIn(h, {i.token : i \in issued}) :
                  auth(s, Request("GET /playlists", h, tok, 0, NoBody))
  \/ Quiet /\ \E s \in DOMAIN reqs, tok \in Presentable :
                auth(s, Request("GET /playlists", <<"Bearer", SP, "T">>, tok, 0, NoBody))
  \/ Quiet /\ \E s \in DOMAIN reqs : authThen(s)
  \/ Quiet /\ \E s \in DOMAIN reqs : authCatch(s)
  \/ Quiet /\ \E s \in DOMAIN reqs : GetPlaylists(s)

SpecAuth == InitAuth /\ [][NextAuth]_vars

\* two requests in flight at once, each with Bearer <a token the service
\* issued>, to a reading and a writing route, over the tables of an earlier
\* run; their callbacks interleave in every order
InitPair == InitWith({"r1", "r2"}, {"kept", "gone"})

NextPair ==
  \/ Sent
  \/ Quiet /\ Boot
  \/ Quiet /\ PostUsers("b@x", "pw1", "pw1", "s1")
  \/ Quiet /\ PostTokens("b@x", "pw1")
  \/ Quiet /\ \E s \in DOMAIN reqs, route \in {"GET /playlists", "POST /playlists"} :
                \E tok \in {i.token : i \in issued}, body \in Bodies(route) :
                  auth(s, Request(route, <<"Bearer", SP, "T">>, tok, 0, body))
  \/ Quiet /\ \E s \in DOMAIN reqs : authThen(s)
  \/ Quiet /\ \E s \in DOMAIN reqs : authCatch(s)
  \/ Quiet /\ \E s \in DOMAIN reqs : GetPlaylists(s)
  \/ Quiet /\ \E s \in DOMAIN reqs : PostPlaylists(s)

SpecPair == InitPair /\ [][NextPair]_vars

\* the two creating routes, driven by bodies that also name an owner: a
\* userId in the body of POST /playlists, a playlistId in that of
\* POST /playlists/:id/songs
BodiesNaming(route) ==
  IF route = "POST /playlists"
  THEN {[name |-> n, userId |-> u] : n \in Names, u \in UserIds}
  ELSE {[title |-> t, artist |-> "artist", album |-> "album", playlistId |-> p] :
          t \in Titles, p \in PlaylistIds}

NextOwner ==
  \/ Sent
  \/ Quiet /\ Boot
  \/ Quiet /\ \E email \in Emails : PostUsers(email, "pw1", "pw1", "s1")
  \/ Quiet /\ \E email \in Emails : PostTokens(email, "pw1")
  \/ Quiet /\ \E s \in DOMAIN reqs,
                 route \in {"POST /playlists", "POST /playlists/:id/songs"} :
                \E tok \in {i.token : i \in issued}, id \in ParamIds(route),
                   body \in BodiesNaming(route) :
                  auth(s, Request(route, <<"Bearer", SP, "T">>, tok, id, body))
  \/ Quiet /\ \E s \in DOMAIN reqs : authThen(s)
  \/ Quiet /\ \E s \in DOMAIN reqs : authCatch(s)
  \/ Quiet /\ \E s \in DOMAIN reqs : PostPlaylists(s)
  \/ Quiet /\ \E s \in DOMAIN reqs : PostSongsFind(s)
  \/ Quiet /\ \E s \in DOMAIN reqs : PostSongsCreate(s)

SpecOwner == Init /\ [][NextOwner]_vars

\* ================================================================== claims
\* Vocabulary of the claims, stated on the header and the token themselves.
Protected(x) == x.route \in Routes
InFlight(s) == reqs[s].pc # "idle"

\* a step that takes a request from arrival into the pending user lookup
Admitted(s) == reqs[s].pc = "idle" /\ reqs'[s].pc # "idle"

\* a step in which a request is answered as it arrives: an exchange completes
\* and no request in flight ends
AnsweredAtArrival ==
  /\ last' # NoLast
  /\ Protected(last')
  /\ \A s \in DOMAIN reqs : reqs'[s].pc = "idle" => reqs[s].pc = "idle"

\* the header is exactly `Bearer <token>`: Bearer, one space, a non-empty
\* word without a space
BearerForm(h) ==
  /\ Len(h) >= 3
  /\ h[1] = "Bearer"
  /\ h[2] = SP
  /\ \A i \in 3..Len(h) : h[i] # SP

\* the header begins with Bearer, one space and a non-empty word; more words
\* may follow
BeginsBearerToken(h) ==
  /\ Len(h) >= 3
  /\ h[1] = "Bearer"
  /\ h[2] = SP
  /\ h[3] # SP

\* the word after `Bearer `, as a token: tok when the word is T, and text that
\* is no token otherwise
TokenOf(h, tok) ==
  IF Len(h) >= 3 /\ h[3] = "T" /\ (Len(h) = 3 \/ h[4] = SP) THEN tok ELSE Garbage

SignedByService(t) == t.kind = "jwt" /\ t.sig = Sign(t.payload, env.JWT_SECRET)
FailsVerification(t, time) == ~SignedByService(t) \/ time >= t.payload.exp

Is401(x) ==
  /\ x.outcome = "response"
  /\ x.status = 401
  /\ x.res = [error |-> "Unauthorized"]
  /\ x.user = 0

\* the request was answered at once: nothing was looked up, stored or issued,
\* and no handler was started
NothingFurther == UNCHANGED <<reqs, users, playlists, songs, ids, issued>>

\* C1: whenever the handler of a protected route runs for a request, the
\* request carried a token signed by the service and unexpired when it was
\* verified, req.user is a row of the user table and its id is the token's
\* userId; a handler starts only out of the pending lookup of auth.
C1_HandlerOnlyWhenAuthorized ==
  /\ [](\A s \in DOMAIN reqs :
          reqs[s].pc \in {"handler", "create"} =>
            LET t == TokenOf(reqs[s].authorization, reqs[s].tok)
            IN /\ BeginsBearerToken(reqs[s].authorization)
               /\ SignedByService(t)
               /\ reqs[s].user \in users
               /\ reqs[s].user.id = t.payload.userId)
  /\ [][\A s \in DOMAIN reqs :
          /\ Admitted(s) =>
               ~FailsVerification(TokenOf(reqs'[s].authorization, reqs'[s].tok), now)
          /\ (reqs'[s].pc = "handler" /\ reqs[s].pc # "handler") =>
               reqs[s].pc = "lookup"]_vars

\* a handler is running
C1_Witness == \E s \in DOMAIN reqs : reqs[s].pc = "handler"

\* C2 as claimed: a request whose header is absent or not exactly
\* `Bearer <token>` is answered 401 {error: "Unauthorized"} at once and is
\* never admitted to verification, lookup or handler.
C2_AsClaimed ==
  [][/\ \A s \in DOMAIN reqs : Admitted(s) => BearerForm(reqs'[s].authorization)
     /\ (AnsweredAtArrival /\ ~BearerForm(last'.authorization)) =>
          (Is401(last') /\ NothingFurther)]_vars

\* C2 amended: a request whose header is absent, empty, or does not begin
\* with Bearer, one space and a non-empty token is answered 401
\* {error: "Unauthorized"} at once and is never admitted.
C2_Unauthorized ==
  [][/\ \A s \in DOMAIN reqs : Admitted(s) => BeginsBearerToken(reqs'[s].authorization)
     /\ (AnsweredAtArrival /\ ~BeginsBearerToken(last'.authorization)) =>
          (Is401(last') /\ NothingFurther)]_vars

\* a header that does not begin with `Bearer <token>` but carries a token the
\* service would accept was answered 401
C2_Witness ==
  /\ Protected(last)
  /\ last.authorization # Absent
  /\ Len(last.authorization) >= 3
  /\ last.authorization[3] = "T"
  /\ last.tok \in {i.token : i \in issued}
  /\ ~FailsVerification(last.tok, now)
  /\ Is401(last)

\* the text jsonwebtoken gives each failure
FailureText(t, time) ==
  IF t.kind # "jwt" THEN "Error JsonWebTokenError: jwt malformed"
  ELSE IF ~SignedByService(t) THEN "Error JsonWebTokenError: invalid signature"
  ELSE "Error TokenExpiredError: jwt expired"

\* C3: a request with a `Bearer <token>` header whose token is malformed,
\* not signed by the service or expired is answered 400 with
\* {error: "Error <Kind>: <message>"} at once, and is never admitted to the
\* user lookup or the handler.
C3_BadRequest ==
  [][/\ \A s \in DOMAIN reqs :
          Admitted(s) =>
            ~FailsVerification(TokenOf(reqs'[s].authorization, reqs'[s].tok), now)
     /\ (/\ AnsweredAtArrival
         /\ BearerForm(last'.authorization)
         /\ FailsVerification(TokenOf(last'.authorization, last'.tok), now)) =>
          /\ last'.outcome = "response"
          /\ last'.status = 400
          /\ last'.res = [error |-> FailureText(TokenOf(last'.authorization, last'.tok), now)]
          /\ last'.user = 0
          /\ NothingFurther]_vars

\* `Bearer <token>` with a token whose signature does not match was
\* answered 400
C3_Witness ==
  /\ Protected(last)
  /\ last.status = 400
  /\ last.authorization = <<"Bearer", SP, "T">>
  /\ last.tok.kind = "jwt"
  /\ ~SignedByService(last.tok)

\* C4: when the lookup for a verified token finds no user, the middleware
\* calls next('User does not exist'): the request ends there, with req.user
\* unset and no handler started.
C4_UserDoesNotExist ==
  [][\A s \in DOMAIN reqs :
       (/\ reqs[s].pc = "lookup"
        /\ reqs'[s] # reqs[s]
        /\ ~authCatch(s)
        /\ ~\E u \in users : u.id = reqs[s].data.userId) =>
         /\ reqs'[s] = Idle
         /\ last'.outcome = "next"
         /\ last'.next = "User does not exist"
         /\ last'.user = 0
         /\ UNCHANGED <<users, playlists, songs, ids, issued>>]_vars

\* a token of the service, unexpired, for an account that is gone ended in
\* next('User does not exist')
C4_Witness ==
  /\ Protected(last)
  /\ last.outcome = "next"
  /\ last.next = "User does not exist"
  /\ SignedByService(last.tok)
  /\ now < last.tok.payload.exp
  /\ \A s \in DOMAIN reqs : ~InFlight(s)

\* C5: a token the service issued at time t, presented later than
\* t + ExpiresIn, is answered 400 with the TokenExpiredError text at once and
\* is never admitted.
C5_Expired ==
  [][/\ \A s \in DOMAIN reqs, g \in issued :
          (/\ Admitted(s)
           /\ g.token = TokenOf(reqs'[s].authorization, reqs'[s].tok)) =>
            now <= g.token.payload.iat + ExpiresIn
     /\ \A g \in issued :
          (/\ AnsweredAtArrival
           /\ BeginsBearerToken(last'.authorization)
           /\ g.token = TokenOf(last'.authorization, last'.tok)
           /\ now > g.token.payload.iat + ExpiresIn) =>
            /\ last'.status = 400
            /\ last'.res = [error |-> "Error TokenExpiredError: jwt expired"]
            /\ NothingFurther]_vars

\* a token of the service presented later than its issue time + ExpiresIn
\* was answered 400
C5_Witness ==
  /\ Protected(last)
  /\ last.authorization = <<"Bearer", SP, "T">>
  /\ last.tok \in {g.token : g \in issued}
  /\ now > last.tok.payload.iat + ExpiresIn
  /\ last.status = 400

\* C6 as claimed: verifying a token issued for claims C, before its expiry,
\* returns C.
C6_AsClaimed ==
  \A s \in DOMAIN reqs, g \in issued :
    (InFlight(s) /\ g.token = TokenOf(reqs[s].authorization, reqs[s].tok)) =>
      reqs[s].data = g.claims

\* C6 amended: verifying a token issued for claims C at time t, before its
\* expiry, returns C's userId together with iat = t and exp = t + ExpiresIn.
C6_RoundTrip ==
  \A s \in DOMAIN reqs, g \in issued :
    (InFlight(s) /\ g.token = TokenOf(reqs[s].authorization, reqs[s].tok)) =>
      /\ reqs[s].data.userId = g.claims.userId
      /\ reqs[s].data.exp = reqs[s].data.iat + ExpiresIn
      /\ DOMAIN reqs[s].data = DOMAIN g.claims \cup {"iat", "exp"}

\* a token issued during the run has been verified and its lookup is pending
C6_Witness ==
  \E s \in DOMAIN reqs, g \in issued :
    /\ reqs[s].pc = "lookup"
    /\ g.token = reqs[s].tok
    /\ g.token.payload.iat > 0

\* the step in which the handler of the request in slot s answers
HandlerEnds(s, route) ==
  /\ reqs[s].pc = "handler"
  /\ reqs[s].route = route
  /\ reqs'[s].pc = "idle"

Owns(userId, id) == \E p \in playlists : p.id = id /\ p.userId = userId

\* C7: GET /playlists answers with playlists of the requester only, and
\* GET /playlists/:id with a playlist of the requester and songs of that
\* playlist only; for an id that is not a playlist of the requester (another
\* user's included) it answers 404 {error: 'Not found'} and nothing else.
C7_ReadsAreScoped ==
  [][\A s \in DOMAIN reqs :
       LET me == reqs[s].user.id
       IN /\ HandlerEnds(s, "GET /playlists") =>
               /\ last'.status = 200
               /\ \A item \in last'.res.playlists :
                    \E p \in playlists :
                      /\ p.userId = me
                      /\ item = [id |-> p.id, name |-> p.name]
          /\ HandlerEnds(s, "GET /playlists/:id") =>
               IF Owns(me, reqs[s].id)
               THEN /\ last'.status = 200
                    /\ last'.res.id = reqs[s].id
                    /\ \A item \in last'.res.songs :
                         \E g \in songs : g.id = item.id /\ g.playlistId = reqs[s].id
               ELSE /\ last'.status = 404
                    /\ last'.res = [error |-> "Not found"]]_vars

\* a user asked for another user's playlist, which holds a song, and got 404
C7_Witness ==
  /\ last.route = "GET /playlists/:id"
  /\ last.status = 404
  /\ \E p \in playlists : p.id = last.id /\ p.userId # last.user
  /\ \E g \in songs : g.playlistId = last.id

\* C8: a handler step of a request by user A leaves every playlist of another
\* user, and the songs of each such playlist, as they were; DELETE of a
\* playlist A does not own answers 404 and removes nothing; POST of a song to
\* a playlist A does not own answers 422 and creates nothing.
C8_OthersUntouched ==
  [][\A s \in DOMAIN reqs :
       (reqs[s].pc \in {"handler", "create"} /\ reqs'[s] # reqs[s]) =>
         LET me == reqs[s].user.id
             others == {p \in playlists : p.userId # me}
         IN /\ {p \in playlists' : p.userId # me} = others
            /\ \A p \in others :
                 {g \in songs' : g.playlistId = p.id} = {g \in songs : g.playlistId = p.id}
            /\ (reqs[s].route = "DELETE /playlists/:id" /\ ~Owns(me, reqs[s].id)) =>
                 /\ last'.status = 404
                 /\ UNCHANGED <<playlists, songs>>
            /\ (/\ reqs[s].route = "POST /playlists/:id/songs"
                /\ reqs[s].pc = "handler"
                /\ ~Owns(me, reqs[s].id)) =>
                 /\ last'.status = 422
                 /\ reqs'[s] = Idle
                 /\ UNCHANGED <<playlists, songs>>]_vars

\* a user tried to delete another user's playlist, which holds a song, and
\* got 404
C8_Witness ==
  /\ last.route = "DELETE /playlists/:id"
  /\ last.status = 404
  /\ \E p \in playlists : p.id = last.id /\ p.userId # last.user
  /\ \E g \in songs : g.playlistId = last.id

\* the submitted password verifies against the stored hash
Verifies(password, hash) == hash.digest = Digest(hash.salt, password)

\* C9 as claimed: POST /tokens answers 200 with a token only when a user with
\* the submitted email exists whose hash the submitted password verifies
\* against, the token's userId being that user's id; in every other case it
\* answers 401 {error: "Unauthorized"}.
C9_AsClaimed ==
  last.route = "POST /tokens" =>
    /\ last.status = 200 =>
         \E u \in users :
           /\ u.email = last.body.email
           /\ Verifies(last.body.password, u.password)
           /\ last.res.token.payload.userId = u.id
    /\ last.status # 200 =>
         /\ last.outcome = "response"
         /\ last.status = 401
         /\ last.res = [error |-> "Unauthorized"]

\* C10 as claimed: no two rows of the user table have the same email.
C10_AsClaimed == \A u \in users, v \in users : u.email = v.email => u = v

\* C11 as claimed: once a registration with (email e, password P) has
\* created user u, every login with (e, P) answers 200 with a token whose
\* userId is u's id, and every login with (e, P') for a password P' other
\* than P answers 401, whatever registrations and logins came between.
C11_AsClaimed ==
  \A u \in users :
    (/\ last.route = "POST /tokens"
     /\ last.body.email = u.email
     /\ last.body.password \in Passwords) =>
      IF Verifies(last.body.password, u.password)
      THEN /\ last.status = 200
           /\ last.res.token.payload.userId = u.id
      ELSE /\ last.status = 401
           /\ last.res = [error |-> "Unauthorized"]

\* C12: a registration whose password differs from its password_confirmation
\* is answered with status 200 and a body of the one field error, and no row
\* of any table is created or changed by it.
C12_MismatchCreatesNothing ==
  [][(/\ last'.route = "POST /users"
      /\ last' # last
      /\ last'.body.password # last'.body.password_confirmation) =>
       /\ last'.outcome = "response"
       /\ last'.status = 200
       /\ DOMAIN last'.res = {"error"}
       /\ last'.res.error = "Passwords need to match!"
       /\ users' = users
       /\ UNCHANGED <<playlists, songs, ids, issued>>]_vars

\* a registration with a mismatch was answered 200 with an error body, after
\* an earlier registration had created a row
C12_Witness ==
  /\ last.route = "POST /users"
  /\ last.body.password # last.body.password_confirmation
  /\ last.body.password \in Passwords
  /\ last.status = 200
  /\ "error" \in DOMAIN last.res
  /\ users # {}

\* the fields of the items of a list in a response
ItemsHave(items, fields) == \A item \in items : DOMAIN item = fields

\* C13: no response carries a password or a password hash.  The 201 of a
\* registration holds exactly id and email of the created row; the 200 of a
\* login holds only a token, issued for claims that hold only userId, whose
\* payload holds that id and two times; every other body of the open routes
\* is {error}; the bodies of the playlist and song routes are made of the
\* playlist and song fields, none of them a password field.
C13_NoPasswordInResponses ==
  /\ last.route = "POST /users" =>
       IF last.status = 201
       THEN \E u \in users : last.res = [id |-> u.id, email |-> u.email]
       ELSE \/ last.outcome = "rejected" /\ last.res = [none |-> TRUE]
            \/ last.res = [error |-> "Passwords need to match!"]
  /\ last.route = "POST /tokens" =>
       IF last.status = 200
       THEN /\ DOMAIN last.res = {"token"}
            /\ DOMAIN last.res.token.payload = {"userId", "iat", "exp"}
            /\ last.res.token.payload.userId \in {u.id : u \in users}
            /\ last.res.token.payload.iat \in 0..MaxTime
            /\ last.res.token.payload.exp \in 0..(MaxTime + ExpiresIn)
            /\ last.res.token.sig = Sign(last.res.token.payload, env.JWT_SECRET)
            /\ \E g \in issued : g.token = last.res.token /\ DOMAIN g.claims = {"userId"}
       ELSE \/ last.outcome = "rejected" /\ last.res = [none |-> TRUE]
            \/ last.res = [error |-> "Unauthorized"]
  /\ (Protected(last) /\ last.outcome = "response") =>
       /\ "password" \notin DOMAIN last.res
       /\ \/ DOMAIN last.res = {"error"}
          \/ /\ last.route = "GET /playlists"
             /\ DOMAIN last.res = {"playlists"}
             /\ ItemsHave(last.res.playlists, {"id", "name"})
          \/ /\ last.route = "GET /playlists/:id"
             /\ DOMAIN last.res = {"id", "name", "songs"}
             /\ ItemsHave(last.res.songs, {"id", "title", "album", "artist"})
          \/ /\ last.route = "POST /playlists"
             /\ DOMAIN last.res = {"id", "name", "userId"}
          \/ /\ last.route = "DELETE /playlists/:id"
             /\ DOMAIN last.res = {"count"}
          \/ /\ last.route = "POST /playlists/:id/songs"
             /\ DOMAIN last.res = {"id", "title", "artist", "album", "playlistId"}
  /\ (Protected(last) /\ last.outcome # "response") =>
       \/ last.res = [none |-> TRUE]
       \/ last.res \in {[html |-> "User does not exist"],
                        [html |-> "SequelizeConnectionError"]}

\* a registration was answered 201 while the table holds the created row
\* and its hash
C13_Witness ==
  /\ last.route = "POST /users"
  /\ last.status = 201
  /\ \E u \in users : u.id = last.res.id /\ Verifies(last.body.password, u.password)

\* an exchange of a protected request that no handler answered: req.user was
\* never set
Unauthorized(x) == Protected(x) /\ x.user = 0

Is400(x) ==
  /\ x.outcome = "response"
  /\ x.status = 400
  /\ x.res = [error |-> FailureText(TokenOf(x.authorization, x.tok), now)]

\* C14 as claimed: every request to a protected route that is not authorized
\* is answered 401 {error: "Unauthorized"} or 400 {error: "Error <Kind>:
\* <message>"}, the request whose token's user does not exist included.
C14_AsClaimed ==
  Unauthorized(last) =>
    \/ Is401(last)
    \/ /\ last.outcome = "response"
       /\ last.status = 400
       /\ DOMAIN last.res = {"error"}

\* C14 amended: a request to a protected route that is not authorized is
\* answered 401 {error: "Unauthorized"} when its header does not begin with
\* Bearer and a token, and 400 {error: "Error <Kind>: <message>"} when the
\* token fails verification (an expired token of the service is answered so
\* as it arrives); when the token verifies and the lookup finds no user or
\* fails, the middleware sends neither: it calls next(err), and the request
\* ends in the framework's error handling with no 400 or 401.
C14_FailureResponses ==
  Unauthorized(last) =>
    LET h == last.authorization
        t == TokenOf(h, last.tok)
    IN IF ~BeginsBearerToken(h) THEN Is401(last)
       ELSE IF ~SignedByService(t) THEN Is400(last)
       ELSE \/ Is400(last) /\ FailsVerification(t, now)
            \/ /\ last.outcome = "next"
               /\ last.next \in {"User does not exist", "SequelizeConnectionError"}
               /\ last.next = "User does not exist" =>
                    ~\E u \in users : u.id = t.payload.userId
               /\ last.status \notin {400, 401}
               /\ "error" \notin DOMAIN last.res

\* a verified token whose user has no row: the request ended in next(err)
C14_Witness ==
  /\ Unauthorized(last)
  /\ last.outcome = "next"
  /\ last.next = "User does not exist"
  /\ ~FailsVerification(TokenOf(last.authorization, last.tok), now)
  /\ ~\E u \in users : u.id = last.tok.payload.userId

\* both environment values are present and non-empty
BothSet == env.DB_PASS \notin {Undefined, ""} /\ env.JWT_SECRET \notin {Undefined, ""}

\* C15: the process is serving only if DB_PASS and JWT_SECRET are both
\* present and non-empty; otherwise its first step ends it with exit status
\* 1, and out of serving no request is taken up or answered, no token is
\* issued or verified and no table is touched.
C15_ServesOnlyWithSecrets ==
  /\ [](/\ phase = "serving" => BothSet
        /\ phase = "exit 1" => ~BothSet
        /\ phase # "serving" =>
             /\ last = NoLast
             /\ \A s \in DOMAIN reqs : reqs[s] = Idle)
  /\ [][/\ (phase = "start" /\ ~BothSet) => phase' = "exit 1"
        /\ phase # "serving" =>
             UNCHANGED <<env, users, playlists, songs, ids, issued, reqs, last>>
        /\ phase = "exit 1" => phase' = "exit 1"
        /\ issued' # issued => (phase = "serving" /\ BothSet)
        /\ (\E s \in DOMAIN reqs : Admitted(s)) => (phase = "serving" /\ BothSet)]_vars

\* the process has exited with status 1 because JWT_SECRET is the empty
\* string, DB_PASS being set
C15_Witness ==
  /\ phase = "exit 1"
  /\ env.JWT_SECRET = ""
  /\ env.DB_PASS \notin {Undefined, ""}

\* the request in slot s takes a step
Steps(s) == reqs'[s] # reqs[s]

\* the user id in the token of the request in slot s
OwnUserId(s) == TokenOf(reqs[s].authorization, reqs[s].tok).payload.userId

\* C16: with two requests in flight in any interleaving, the verified data
\* and req.user of each are those of its own token; a step of one request
\* leaves the other as it was, ends in an exchange of its own, and the way a
\* pending lookup ends is decided by the request's own token and the user
\* table alone; a playlist a handler creates belongs to its own req.user.
C16_AuthIsPerRequest ==
  /\ [](\A s \in DOMAIN reqs :
          /\ reqs[s].pc = "lookup" => reqs[s].data.userId = OwnUserId(s)
          /\ reqs[s].pc = "handler" =>
               /\ reqs[s].user \in users
               /\ reqs[s].user.id = OwnUserId(s))
  /\ [][\A s \in DOMAIN reqs :
          Steps(s) =>
            /\ \A t \in DOMAIN reqs \ {s} : reqs'[t] = reqs[t]
            /\ (reqs[s].pc # "idle" /\ last' # NoLast) =>
                 /\ last'.tok = reqs[s].tok
                 /\ last'.route = reqs[s].route
            /\ reqs[s].pc = "lookup" =>
                 \/ /\ reqs'[s].pc = "handler"
                    /\ reqs'[s].user \in users
                    /\ reqs'[s].user.id = OwnUserId(s)
                    /\ last' = NoLast
                 \/ /\ reqs'[s] = Idle
                    /\ last'.outcome = "next"
                    /\ last'.next = "User does not exist" =>
                         ~\E u \in users : u.id = OwnUserId(s)
            /\ reqs[s].pc = "handler" =>
                 /\ last'.user = OwnUserId(s)
                 /\ \A p \in playlists' \ playlists : p.userId = OwnUserId(s)
                 /\ reqs[s].route = "GET /playlists" =>
                      \A item \in last'.res.playlists :
                        \E p \in playlists : p.id = item.id /\ p.userId = OwnUserId(s)]_vars

\* two requests with the tokens of two users are in their handlers at once,
\* a playlist having been created
C16_Witness ==
  \E s \in DOMAIN reqs, t \in DOMAIN reqs :
    /\ reqs[s].pc = "handler"
    /\ reqs[t].pc = "handler"
    /\ reqs[s].user.id # reqs[t].user.id
    /\ playlists # {}

\* C17: whether a token passes verification is decided by its signature and
\* the clock alone.  Every token the service issued verifies at each time
\* from now up to its expiry, whatever tokens have been issued and whatever
\* rows exist; and a request with a Bearer token is refused on arrival only
\* if the token is not signed by the service or has expired, and admitted
\* only if it is signed and unexpired.
C17_ValidityIsStateless ==
  /\ [](\A g \in issued, time \in now..(MaxTime + ExpiresIn) :
          toData(g.token, time).ok <=> time < g.token.payload.iat + ExpiresIn)
  /\ [][/\ \A s \in DOMAIN reqs :
             Admitted(s) =>
               ~FailsVerification(TokenOf(reqs'[s].authorization, reqs'[s].tok), now)
        /\ (AnsweredAtArrival /\ BeginsBearerToken(last'.authorization)) =>
             FailsVerification(TokenOf(last'.authorization, last'.tok), now)]_vars

\* two tokens of one user, issued at different times, are unexpired at once,
\* a further user has registered since, and a request carrying the older
\* token has passed verification
C17_Witness ==
  \E s \in DOMAIN reqs, g \in issued :
    /\ reqs[s].pc = "lookup"
    /\ reqs[s].tok \in {i.token : i \in issued}
    /\ g.token.payload.userId = reqs[s].tok.payload.userId
    /\ g.token.payload.iat > reqs[s].tok.payload.iat
    /\ ~FailsVerification(g.token, now)
    /\ ~FailsVerification(reqs[s].tok, now)
    /\ Cardinality(users) > 1

\* C18: a run of auth ends in exactly one of four ways.  On arrival: a 401
\* or a 400 response and nothing else, or a pending lookup and no response.
\* When the lookup completes: next() with req.user set to a row of the user
\* table and nothing sent, or next(err), with err the text 'User does not
\* exist' or the store's own error, no 400 or 401 sent, req.user unset and no
\* handler started.  A request answered or forwarded is no longer in flight,
\* so no second outcome can follow.
C18_OneTerminalOutcome ==
  [][/\ AnsweredAtArrival =>
          /\ last'.outcome = "response"
          /\ last'.status \in {400, 401}
          /\ last'.user = 0
          /\ reqs' = reqs
     /\ \A s \in DOMAIN reqs :
          /\ Admitted(s) =>
               /\ reqs'[s].pc = "lookup"
               /\ reqs'[s].user = NoUser
               /\ last' = NoLast
          /\ (reqs[s].pc = "lookup" /\ reqs'[s] # reqs[s]) =>
               \/ /\ reqs'[s].pc = "handler"
                  /\ reqs'[s].user \in users
                  /\ last' = NoLast
               \/ /\ reqs'[s] = Idle
                  /\ last'.outcome = "next"
                  /\ last'.next \in {"User does not exist", "SequelizeConnectionError"}
                  /\ last'.status \notin {400, 401}
                  /\ last'.user = 0]_vars

\* the lookup of a verified token whose user exists failed in the store, and
\* the store's error was forwarded with next(err)
C18_Witness ==
  /\ Protected(last)
  /\ last.outcome = "next"
  /\ last.next = "SequelizeConnectionError"
  /\ \E u \in users : u.id = last.tok.payload.userId
  /\ \A s \in DOMAIN reqs : ~InFlight(s)

\* C19: the playlist POST /playlists creates has userId = req.user.id, the
\* user of the request's token, whatever userId the body names; the song
\* POST /playlists/:id/songs creates has the playlistId of the playlist of
\* the route's :id, which req.user owns, whatever playlistId the body names.
C19_OwnerFromIdentity ==
  [][\A s \in DOMAIN reqs :
       /\ (Running(s, "POST /playlists") /\ Steps(s)) =>
            \E p \in playlists' \ playlists :
              /\ playlists' = playlists \cup {p}
              /\ p.userId = reqs[s].user.id
              /\ p.userId = OwnUserId(s)
              /\ last'.status = 201
              /\ last'.res = p
       /\ (reqs[s].pc = "create" /\ Steps(s) /\ last'.status = 201) =>
            \E g \in songs' \ songs :
              /\ songs' = songs \cup {g}
              /\ g.playlistId = reqs[s].id
              /\ Owns(reqs[s].user.id, g.playlistId)
              /\ last'.res = g
       /\ (playlists' # playlists \/ songs' # songs) =>
            \E t \in DOMAIN reqs : reqs[t].pc \in {"handler", "create"} /\ Steps(t)]_vars

\* a playlist was created by a request whose body names another registered
\* user as userId: it belongs to the requester
C19_Witness ==
  /\ last.route = "POST /playlists"
  /\ last.status = 201
  /\ last.body.userId # last.user
  /\ last.body.userId \in {u.id : u \in users}
  /\ last.res.userId = last.user
  /\ \E p \in playlists : p.id = last.res.id /\ p.userId = last.user

\* a song was created by a request whose body names another user's playlist
\* as playlistId: it is in the playlist of the route
C19_WitnessSong ==
  /\ last.route = "POST /playlists/:id/songs"
  /\ last.status = 201
  /\ last.body.playlistId # last.id
  /\ \E p \in playlists : p.id = last.body.playlistId /\ p.userId # last.user
  /\ last.res.playlistId = last.id

\* the answer POST /tokens gives a body whose email has no row
UnknownEmailAnswer(body) ==
  Responded(Open("POST /tokens", body), 401, [error |-> "Unauthorized"])

\* a step in which a login fails: no token is sent
LoginFails == last' # last /\ last'.route = "POST /tokens" /\ last'.status # 200

\* C20 as claimed: a login that fails is answered exactly as the same body
\* is answered when its email has no row, 401 {error: 'Unauthorized'}, and
\* changes no table, whether or not the email is registered.
C20_AsClaimed ==
  [][LoginFails =>
       /\ last' = UnknownEmailAnswer(last'.body)
       /\ UNCHANGED <<users, playlists, songs, ids, issued>>]_vars

\* the part of C20 that holds: with a password that is a string, a failed
\* login is answered as for an unknown email and changes nothing
C20_WrongPasswordSame ==
  [][(LoginFails /\ last'.body.password \in Passwords) =>
       /\ last' = UnknownEmailAnswer(last'.body)
       /\ UNCHANGED <<users, playlists, songs, ids, issued>>]_vars

====
